---- MODULE Spec2Model ----
(***************************************************************************)
(* Model of tmp.py: Monte Carlo power analysis of an A/B test on CTRs.     *)
(*                                                                         *)
(*   calculate_power      lines 13-42   pure function of its arguments and *)
(*                                      of the binomial draws              *)
(*   plot_power_analysis  lines 44-75   loop over sample_sizes with a      *)
(*                                      try/except, then the plot          *)
(*   sliders / interactive_output  lines 78-84                             *)
(*                                                                         *)
(* Units.  Probabilities (p_control, p_treatment, the slider values) are   *)
(* integers in thousandths, alpha is in ten-thousandths, a critical value  *)
(* is in hundredths.  A real number the code computes in floating point is *)
(* carried as an exact fraction of integers; NumPy's nan and inf are       *)
(* explicit flags.                                                         *)
(***************************************************************************)
EXTENDS Integers, Sequences, FiniteSets

\* ---------------------------------------------------------------- bounds
\* largest sample size whose binomial outcomes are enumerated exhaustively
MaxN == 3
\* largest number of repetitions of a direct call of calculate_power
MaxReps == 2
\* number of slider moves the user makes in one behaviour
MaxChanges == 3
\* number of slider messages that can wait in the kernel's queue
MaxPending == 2
\* repetitions per estimate in a run of plot_power_analysis; the script
\* uses 10000 (line 10), the model a small number of trials per size
num_simulations == 2

\* ------------------------------------------------------ program constants
\* line 8: alpha = 0.05, in ten-thousandths
alpha == 500
\* line 9: desired_power = 0.8, in hundredths
desired_power == 80
\* line 11: np.arange(500, 15000, 1000)
ArangeStart == 500
ArangeStop == 15000
ArangeStep == 1000
\* lines 78-79: FloatSlider(value=, min=0.01, max=0.10), in thousandths
SliderMin == 10
SliderMax == 100
PControlValue == 50
PTreatmentValue == 60

VARIABLES
    sample_sizes,        \* line 11: the module-level grid of sample sizes
    p_control_slider,    \* line 78: value of the slider, kernel side
    p_treatment_slider,  \* line 79: value of the slider, kernel side
    front,               \* positions of the two sliders in the front end
    msgs,                \* slider messages sent and not yet handled
    pc,                  \* "loop", "plot", "idle"; "call", "returned"
    i,                   \* line 52: position of the for loop (1-based)
    args,                \* p_control, p_treatment of the current run
    results,             \* line 51: the list of (n, power) pairs
    printed,             \* line 58: the error reports of the current run
    calls,               \* calls of calculate_power made by the current run
    propagated,          \* exception that left plot_power_analysis, if any
    chart,               \* what the output widget shows (at most one chart)
    runs,                \* number of runs of plot_power_analysis started
    changes,             \* number of slider moves made by the user
    call,                \* arguments of the last call of calculate_power
    draws,               \* lines 27-28: the success counts it drew
    ret                  \* line 42: the power it returned (<<>>: none yet)

vars == <<sample_sizes, p_control_slider, p_treatment_slider, front, msgs,
          pc, i, args, results, printed, calls, propagated, chart, runs,
          changes, call, draws, ret>>

\* ------------------------------------------------------------- arithmetic
CeilDiv(a, b) == (a + b - 1) \div b

\* np.arange(start, stop, step): ceil((stop - start) / step) values, the
\* stop excluded
Arange_mutant_floor(start, stop, step) ==
    [k \in 1..((stop - start) \div step) |-> start + (k - 1) * step]

Arange(start, stop, step) ==
    [k \in 1..CeilDiv(stop - start, step) |-> start + (k - 1) * step]

\* a / b > c / d for a, c >= 0 and b, d > 0, by comparing integer parts and
\* then the reciprocals of the fractional parts (no product is formed, so
\* the sizes of the grid stay within the integers of the checker)
RECURSIVE FracGT(_, _, _, _)
FracGT(a, b, c, d) ==
    IF a \div b # c \div d THEN a \div b > c \div d
    ELSE IF a % b = 0 THEN FALSE
    ELSE IF c % d = 0 THEN TRUE
    ELSE FracGT(d, c % d, b, a % b)

\* ------------------------------------------------- calculate_power, 13-42
\* line 31: pooled_prob = (successes_control + successes_treatment) / (2 * n)
pooled_prob(s_c, s_t, n) == [num |-> s_c + s_t, den |-> 2 * n]

\* line 32: pooled_se = sqrt(2 * pooled_prob * (1 - pooled_prob) / n).
\* With pooled_prob = S / 2n the radicand is S * (2n - S) / (2 * n^3); the
\* standard error is carried as this square, the factor w = S * (2n - S)
\* kept apart from 2 * n^3.  It is zero exactly when w = 0.
pooled_se(p, n) == [w |-> p.num * (p.den - p.num), n |-> n]

\* line 35: z = (successes_treatment / n - successes_control / n) / pooled_se
\* NumPy division: 0 / 0 is nan and x / 0 is +-inf, with a warning and no
\* exception.  Otherwise z^2 = (d / n)^2 * 2n^3 / w = d^2 * 2n / w.
z_score(s_c, s_t, n) ==
    LET se == pooled_se(pooled_prob(s_c, s_t, n), n)
        d  == s_t - s_c
    IN  [nan    |-> se.w = 0 /\ d = 0,
         inf    |-> se.w = 0 /\ d # 0,
         neg    |-> d < 0,
         sq_num |-> d * d,
         sq_den |-> se.w,
         sq_mul |-> 2 * n]

\* stats.norm.ppf at q / 20000, to two decimals, for the quantiles used
norm_ppf(q) ==
    CASE q = 19500 -> 196    \* ppf(0.975)   = 1.95996
      [] q = 19900 -> 258    \* ppf(0.995)   = 2.57583
      [] q = 19000 -> 164    \* ppf(0.95)    = 1.64485
      [] q = 19545 -> 200    \* ppf(0.97725) = 2.00000

\* line 38: critical_value = stats.norm.ppf(1 - alpha / 2)
critical_value(a) == norm_ppf(20000 - a)

\* line 41: np.abs(z) > critical_value.  A comparison with nan is False;
\* abs(inf) exceeds every critical value; otherwise, c being positive,
\* |z| > c iff z^2 > c^2 iff d^2 / w > c^2 / (10000 * 2n).
abs_exceeds_mutant_signed(z, c) ==
    IF z.nan THEN FALSE
    ELSE IF z.neg THEN FALSE
    ELSE IF z.inf THEN TRUE
    ELSE FracGT(z.sq_num, z.sq_den, c * c, 10000 * z.sq_mul)

abs_exceeds_mutant_nan(z, c) ==
    IF z.nan THEN TRUE
    ELSE IF z.inf THEN TRUE
    ELSE FracGT(z.sq_num, z.sq_den, c * c, 10000 * z.sq_mul)

abs_exceeds_mutant_ge(z, c) ==
    IF z.nan THEN FALSE
    ELSE IF z.inf THEN TRUE
    ELSE ~FracGT(c * c, 10000 * z.sq_mul, z.sq_num, z.sq_den)

abs_exceeds(z, c) ==
    IF z.nan THEN FALSE
    ELSE IF z.inf THEN TRUE
    ELSE FracGT(z.sq_num, z.sq_den, c * c, 10000 * z.sq_mul)

\* line 41: np.mean of a boolean array: the number of True over the length
\* (nan for an empty array)
mean_mutant_sum(b) ==
    [nan |-> Len(b) = 0,
     num |-> Cardinality({j \in 1..Len(b) : b[j]}),
     den |-> 1]

mean_mutant_len(b) ==
    [nan |-> Len(b) = 0,
     num |-> Cardinality({j \in 1..Len(b) : b[j]}),
     den |-> Len(b) + 1]

mean(b) ==
    [nan |-> Len(b) = 0,
     num |-> Cardinality({j \in 1..Len(b) : b[j]}),
     den |-> Len(b)]

\* lines 31-42 for given draws: the power
calculate_power(n, successes_control, successes_treatment, a) ==
    mean([j \in 1..Len(successes_control) |->
            abs_exceeds(z_score(successes_control[j],
                                successes_treatment[j], n),
                        critical_value(a))])

\* lines 27-28: np.random.binomial(n, p, size): size counts in 0..n (only 0
\* when p = 0, only n when p = 1).  Every outcome is enumerated for n up to
\* MaxN; for the sizes of the grid, the outcome where each trial draws the
\* expected count n * p.
binomial(n, p, size) ==
    IF p = 0 THEN {[j \in 1..size |-> 0]}
    ELSE IF p = 1000 THEN {[j \in 1..size |-> n]}
    ELSE IF n <= MaxN THEN [1..size -> 0..n]
    ELSE {[j \in 1..size |-> (n * p) \div 1000]}

\* --------------------------------------------------------- initial states
NoCall == [n |-> 0, p_control |-> 0, p_treatment |-> 0, alpha |-> 0,
           num_simulations |-> 0]
NoDraws == [control |-> <<>>, treatment |-> <<>>]

\* lines 78-82: the sliders at their initial values, and interactive_output
\* has called plot_power_analysis(0.05, 0.06), which enters its loop
Init ==
    /\ sample_sizes = Arange(ArangeStart, ArangeStop, ArangeStep)
    /\ p_control_slider = PControlValue
    /\ p_treatment_slider = PTreatmentValue
    /\ front = [p_control |-> PControlValue, p_treatment |-> PTreatmentValue]
    /\ msgs = <<>>
    /\ pc = "loop"
    /\ i = 1
    /\ args = [p_control |-> PControlValue, p_treatment |-> PTreatmentValue]
    /\ results = <<>>
    /\ printed = <<>>
    /\ calls = <<>>
    /\ propagated = <<>>
    /\ chart = <<>>
    /\ runs = 1
    /\ changes = 0
    /\ call = NoCall
    /\ draws = NoDraws
    /\ ret = <<>>

\* ---------------------------------------- plot_power_analysis, lines 44-75
\* lines 52-55: one iteration in which calculate_power returns
LoopReturn_mutant_prepend ==
    /\ pc = "loop"
    /\ i <= Len(sample_sizes)
    /\ LET n == sample_sizes[i] IN
       \E s_c \in binomial(n, args.p_control, num_simulations),
          s_t \in binomial(n, args.p_treatment, num_simulations) :
         LET current_power == calculate_power(n, s_c, s_t, alpha)
             c == [n |-> n, p_control |-> args.p_control,
                   p_treatment |-> args.p_treatment, alpha |-> alpha,
                   num_simulations |-> num_simulations]
         IN  /\ results' = <<[n |-> n, power |-> current_power]>> \o results
             /\ calls' = Append(calls, [call |-> c, outcome |-> "returned",
                                        ret |-> <<current_power>>])
             /\ call' = c
             /\ draws' = [control |-> s_c, treatment |-> s_t]
             /\ ret' = <<current_power>>
    /\ i' = i + 1
    /\ pc' = IF i = Len(sample_sizes) THEN "plot" ELSE "loop"
    /\ UNCHANGED <<sample_sizes, p_control_slider, p_treatment_slider, front,
                   msgs, args, printed, propagated, chart, runs, changes>>

LoopReturn ==
    /\ pc = "loop"
    /\ i <= Len(sample_sizes)
    /\ LET n == sample_sizes[i] IN
       \E s_c \in binomial(n, args.p_control, num_simulations),
          s_t \in binomial(n, args.p_treatment, num_simulations) :
         LET current_power == calculate_power(n, s_c, s_t, alpha)
             c == [n |-> n, p_control |-> args.p_control,
                   p_treatment |-> args.p_treatment, alpha |-> alpha,
                   num_simulations |-> num_simulations]
         IN  /\ results' = Append(results, [n |-> n, power |-> current_power])
             /\ calls' = Append(calls, [call |-> c, outcome |-> "returned",
                                        ret |-> <<current_power>>])
             /\ call' = c
             /\ draws' = [control |-> s_c, treatment |-> s_t]
             /\ ret' = <<current_power>>
    /\ i' = i + 1
    /\ pc' = IF i = Len(sample_sizes) THEN "plot" ELSE "loop"
    /\ UNCHANGED <<sample_sizes, p_control_slider, p_treatment_slider, front,
                   msgs, args, printed, propagated, chart, runs, changes>>

\* lines 53-58: one iteration in which calculate_power raises an Exception:
\* the except clause prints the size and the exception, the loop goes on
LoopRaise_mutant_break ==
    /\ pc = "loop"
    /\ i <= Len(sample_sizes)
    /\ LET n == sample_sizes[i]
           c == [n |-> n, p_control |-> args.p_control,
                 p_treatment |-> args.p_treatment, alpha |-> alpha,
                 num_simulations |-> num_simulations]
       IN  /\ printed' = Append(printed, [n |-> n, e |-> "Exception"])
           /\ calls' = Append(calls, [call |-> c, outcome |-> "raised",
                                      ret |-> <<>>])
           /\ call' = c
    /\ draws' = NoDraws
    /\ ret' = <<>>
    /\ i' = i + 1
    /\ pc' = "plot"
    /\ UNCHANGED <<sample_sizes, p_control_slider, p_treatment_slider, front,
                   msgs, args, results, propagated, chart, runs, changes>>

LoopRaise ==
    /\ pc = "loop"
    /\ i <= Len(sample_sizes)
    /\ LET n == sample_sizes[i]
           c == [n |-> n, p_control |-> args.p_control,
                 p_treatment |-> args.p_treatment, alpha |-> alpha,
                 num_simulations |-> num_simulations]
       IN  /\ printed' = Append(printed, [n |-> n, e |-> "Exception"])
           /\ calls' = Append(calls, [call |-> c, outcome |-> "raised",
                                      ret |-> <<>>])
           /\ call' = c
    /\ draws' = NoDraws
    /\ ret' = <<>>
    /\ i' = i + 1
    /\ pc' = IF i = Len(sample_sizes) THEN "plot" ELSE "loop"
    /\ UNCHANGED <<sample_sizes, p_control_slider, p_treatment_slider, front,
                   msgs, args, results, propagated, chart, runs, changes>>

\* lines 61-75: the figure of a non-empty result list replaces what the
\* output widget showed
PlotRender ==
    /\ pc = "plot"
    /\ results # <<>>
    /\ chart' = <<[run |-> runs, p_control |-> args.p_control,
                   p_treatment |-> args.p_treatment,
                   sample_sizes_vals |-> [k \in 1..Len(results) |-> results[k].n],
                   powers |-> [k \in 1..Len(results) |-> results[k].power],
                   axhline |-> desired_power]>>
    /\ pc' = "idle"
    /\ UNCHANGED <<sample_sizes, p_control_slider, p_treatment_slider, front,
                   msgs, i, args, results, printed, calls, propagated, runs,
                   changes, call, draws, ret>>

\* line 62: sample_sizes_vals, powers = zip(*results) with an empty list
\* unpacks nothing into two names: ValueError, outside the try of the loop;
\* it leaves plot_power_analysis and no figure is drawn
PlotUnpackError ==
    /\ pc = "plot"
    /\ results = <<>>
    /\ propagated' = <<"ValueError">>
    /\ chart' = <<>>
    /\ pc' = "idle"
    /\ UNCHANGED <<sample_sizes, p_control_slider, p_treatment_slider, front,
                   msgs, i, args, results, printed, calls, runs, changes,
                   call, draws, ret>>

\* ------------------------------------------- sliders and widget, 78-84
\* FloatSlider keeps its value within [min, max]
Clamp_mutant_nomax(v) == IF v < SliderMin THEN SliderMin ELSE v

Clamp(v) ==
    IF v < SliderMin THEN SliderMin
    ELSE IF v > SliderMax THEN SliderMax
    ELSE v

\* positions the user drags a slider to (thousandths), some beyond the ends
Requests == {5, 50, 60, 70, 150}

\* the user moves a slider in the front end, which sends the new value to
\* the kernel; this can happen while a run is in progress
UserMove ==
    /\ changes < MaxChanges
    /\ Len(msgs) < MaxPending
    /\ \E s \in {"p_control", "p_treatment"}, v \in Requests :
         /\ Clamp(v) # front[s]
         /\ front' = [front EXCEPT ![s] = Clamp(v)]
         /\ msgs' = Append(msgs, [slider |-> s, value |-> Clamp(v)])
    /\ changes' = changes + 1
    /\ UNCHANGED <<sample_sizes, p_control_slider, p_treatment_slider, pc, i,
                   args, results, printed, calls, propagated, chart, runs,
                   call, draws, ret>>

\* line 82: the kernel, idle, handles the next slider message: the slider
\* takes the value and interactive_output calls plot_power_analysis with the
\* values of both sliders; the output is cleared when the new one arrives
HandleChange ==
    /\ pc = "idle"
    /\ msgs # <<>>
    /\ LET m == Head(msgs)
           c == IF m.slider = "p_control" THEN m.value ELSE p_control_slider
           t == IF m.slider = "p_treatment" THEN m.value ELSE p_treatment_slider
       IN  /\ p_control_slider' = c
           /\ p_treatment_slider' = t
           /\ args' = [p_control |-> c, p_treatment |-> t]
    /\ msgs' = Tail(msgs)
    /\ pc' = "loop"
    /\ i' = 1
    /\ results' = <<>>
    /\ printed' = <<>>
    /\ calls' = <<>>
    /\ propagated' = <<>>
    /\ runs' = runs + 1
    /\ UNCHANGED <<sample_sizes, front, chart, changes, call, draws, ret>>

\* The script as it runs: the sliders only supply probabilities within
\* [0.01, 0.10] and sizes of the grid, for which calculate_power has no
\* raising path.
Next == LoopReturn \/ PlotRender \/ UserMove \/ HandleChange

Spec == Init /\ [][Next]_vars

\* One run of plot_power_analysis in which calculate_power may raise for
\* any of the sizes.
NextFault == LoopReturn \/ LoopRaise \/ PlotRender \/ PlotUnpackError

SpecFault == Init /\ [][NextFault]_vars

\* ------------------------------ a direct call of calculate_power, 13-42
Probabilities == {0, 50, 1000}
Alphas == {100, 455, 500, 1000}

InitPower ==
    /\ sample_sizes = Arange(ArangeStart, ArangeStop, ArangeStep)
    /\ p_control_slider = PControlValue
    /\ p_treatment_slider = PTreatmentValue
    /\ front = [p_control |-> PControlValue, p_treatment |-> PTreatmentValue]
    /\ msgs = <<>>
    /\ pc = "call"
    /\ i = 1
    /\ args = [p_control |-> PControlValue, p_treatment |-> PTreatmentValue]
    /\ results = <<>>
    /\ printed = <<>>
    /\ calls = <<>>
    /\ propagated = <<>>
    /\ chart = <<>>
    /\ runs = 0
    /\ changes = 0
    /\ \E n \in 1..MaxN, p_c \in Probabilities, p_t \in Probabilities,
          a \in Alphas, reps \in 1..MaxReps :
         call = [n |-> n, p_control |-> p_c, p_treatment |-> p_t,
                 alpha |-> a, num_simulations |-> reps]
    /\ draws = NoDraws
    /\ ret = <<>>

\* lines 27-42: the draws, then the power for them
CalculatePower ==
    /\ pc = "call"
    /\ \E s_c \in binomial(call.n, call.p_control, call.num_simulations),
          s_t \in binomial(call.n, call.p_treatment, call.num_simulations) :
         /\ draws' = [control |-> s_c, treatment |-> s_t]
         /\ ret' = <<calculate_power(call.n, s_c, s_t, call.alpha)>>
    /\ pc' = "returned"
    /\ UNCHANGED <<sample_sizes, p_control_slider, p_treatment_slider, front,
                   msgs, i, args, results, printed, calls, propagated, chart,
                   runs, changes, call>>

NextPower == CalculatePower

SpecPower == InitPower /\ [][NextPower]_vars

\* ------------------------------------------------------------ properties
\* the sizes of the calls of the current run whose outcome is o, in order
RECURSIVE SizesWith(_, _)
SizesWith(log, o) ==
    IF log = <<>> THEN <<>>
    ELSE IF Head(log).outcome = o
         THEN <<Head(log).call.n>> \o SizesWith(Tail(log), o)
         ELSE SizesWith(Tail(log), o)

ResultSizes == [k \in 1..Len(results) |-> results[k].n]
PrintedSizes == [k \in 1..Len(printed) |-> printed[k].n]
LoopOver == pc \in {"plot", "idle"}

\* the trials of the last call of calculate_power
Trials == 1..Len(draws.control)
\* its trials with a zero pooled standard error: both counts 0 or both n
ZeroSeTrials ==
    {j \in Trials :
        \/ draws.control[j] + draws.treatment[j] = 0
        \/ draws.control[j] + draws.treatment[j] = 2 * call.n}
\* |z| > c in closed form: with S = s_c + s_t and d = s_t - s_c,
\* z^2 = 2 n d^2 / (S (2n - S)), and c is in hundredths
ZExceeds(j) ==
    LET S == draws.control[j] + draws.treatment[j]
        d == draws.treatment[j] - draws.control[j]
        c == critical_value(call.alpha)
    IN  /\ S * (2 * call.n - S) > 0
        /\ 2 * call.n * d * d * 10000 > c * c * S * (2 * call.n - S)
ZEquals(j) ==
    LET S == draws.control[j] + draws.treatment[j]
        d == draws.treatment[j] - draws.control[j]
        c == critical_value(call.alpha)
    IN  /\ S * (2 * call.n - S) > 0
        /\ 2 * call.n * d * d * 10000 = c * c * S * (2 * call.n - S)

\* C1: if calculate_power raises for some sizes, whichever they are, no
\* exception leaves plot_power_analysis and the run ends with the results
\* of the sizes that did not fail.  (Fails: when every size fails, line 62
\* raises ValueError.)
CE_C1 ==
    /\ propagated = <<>>
    /\ pc = "idle" => ResultSizes = SizesWith(calls, "returned")

\* C2: the power calculate_power returns is nan or a number in [0, 1]
Thm_C2 ==
    pc = "returned" =>
        /\ Len(ret) = 1
        /\ \/ ret[1].nan
           \/ ret[1].den > 0 /\ 0 <= ret[1].num /\ ret[1].num <= ret[1].den

Wit_C2 ==
    /\ pc = "returned"
    /\ call.num_simulations = 2
    /\ ~ret[1].nan
    /\ ret[1].num = 2 /\ ret[1].den = 2

\* C3 as stated: a trial with a zero pooled standard error makes the
\* returned power nan
CE_C3 ==
    (pc = "returned" /\ ZeroSeTrials # {}) => ret[1].nan

\* C3 amended: with trials of zero pooled standard error calculate_power
\* still returns, and returns a number: those trials (z-score nan) are not
\* counted, the power is k / repetitions with k at most the number of the
\* other trials
Thm_C3 ==
    (pc = "returned" /\ ZeroSeTrials # {}) =>
        /\ Len(ret) = 1
        /\ ~ret[1].nan
        /\ ret[1].den = call.num_simulations
        /\ 0 <= ret[1].num
        /\ ret[1].num <= call.num_simulations - Cardinality(ZeroSeTrials)
        /\ \A j \in ZeroSeTrials :
             z_score(draws.control[j], draws.treatment[j], call.n).nan

Wit_C3 ==
    /\ pc = "returned"
    /\ call.num_simulations = 2
    /\ Cardinality(ZeroSeTrials) = 1
    /\ ret[1].num = 1 /\ ret[1].den = 2

\* C4: when no estimation raises, at the end of the loop the results hold
\* one (size, power) pair per size of the grid, in the order of the grid,
\* the power the call for that size returned, and calculate_power was
\* called once per size, each time with the p_control and p_treatment of
\* the run, alpha and num_simulations
Thm_C4 ==
    (LoopOver /\ \A k \in 1..Len(calls) : calls[k].outcome = "returned") =>
        /\ Len(results) = Len(sample_sizes)
        /\ Len(calls) = Len(sample_sizes)
        /\ \A k \in 1..Len(sample_sizes) :
             /\ results[k].n = sample_sizes[k]
             /\ <<results[k].power>> = calls[k].ret
             /\ calls[k].call =
                  [n |-> sample_sizes[k], p_control |-> args.p_control,
                   p_treatment |-> args.p_treatment, alpha |-> 500,
                   num_simulations |-> num_simulations]
        /\ \A k \in 1..(Len(results) - 1) : results[k].n < results[k + 1].n

Wit_C4 ==
    /\ pc = "plot"
    /\ runs = 2
    /\ args = [p_control |-> 50, p_treatment |-> 70]
    /\ Len(results) = 15
    /\ results[1].power.num = 0
    /\ results[15].power.num = results[15].power.den

\* C5: an exception of calculate_power is caught and reported once, its
\* size is left out of the results, the other sizes are still attempted and
\* no size is attempted twice: at the end of the loop every size of the grid
\* was called exactly once, the results are the sizes that returned and the
\* reports the sizes that raised, both in the order of the grid
Thm_C5 ==
    /\ pc = "loop" => Len(calls) = i - 1
    /\ LoopOver =>
        /\ Len(calls) = Len(sample_sizes)
        /\ \A k \in 1..Len(sample_sizes) : calls[k].call.n = sample_sizes[k]
        /\ ResultSizes = SizesWith(calls, "returned")
        /\ PrintedSizes = SizesWith(calls, "raised")
        /\ Len(results) + Len(printed) = Len(sample_sizes)

Wit_C5 ==
    /\ pc = "plot"
    /\ PrintedSizes = <<1500, 14500>>
    /\ Len(results) = 13
    /\ results[1].n = 500 /\ results[2].n = 2500

\* C6: with repetitions = 1 calculate_power returns exactly 0 or exactly 1,
\* whatever the two success counts are
Thm_C6 ==
    (pc = "returned" /\ call.num_simulations = 1) =>
        /\ Len(ret) = 1
        /\ ~ret[1].nan
        /\ ret[1].den = 1
        /\ ret[1].num \in {0, 1}
        /\ ret[1].num = 1 <=> ZExceeds(1)

Wit_C6 ==
    /\ pc = "returned"
    /\ call.num_simulations = 1
    /\ ZeroSeTrials = {1}
    /\ ret[1].num = 0 /\ ret[1].den = 1

\* C7: every slider move is pending or has started exactly one run, a run
\* uses the values the sliders have when it starts, always within
\* [0.01, 0.10], the first run 0.05 and 0.06; a run starts only when the
\* kernel is idle, the previous run having processed every size and
\* rendered its chart; the chart shown is the one of the latest finished
\* run
C7Inv ==
    /\ runs + Len(msgs) = changes + 1
    /\ \A v \in {p_control_slider, p_treatment_slider,
                 args.p_control, args.p_treatment} : 10 <= v /\ v <= 100
    /\ runs = 1 => args = [p_control |-> 50, p_treatment |-> 60]
    /\ Len(chart) <= 1
    /\ pc = "idle" =>
         /\ Len(chart) = 1
         /\ chart[1].run = runs
         /\ chart[1].p_control = args.p_control
         /\ chart[1].p_treatment = args.p_treatment
         /\ chart[1].sample_sizes_vals = sample_sizes
    /\ pc # "idle" /\ runs > 1 => Len(chart) = 1 /\ chart[1].run = runs - 1

C7Step ==
    /\ msgs' # msgs /\ Len(msgs') <= Len(msgs) =>
         /\ msgs' = Tail(msgs)
         /\ runs' = runs + 1
         /\ (IF Head(msgs).slider = "p_control"
             THEN p_control_slider' ELSE p_treatment_slider') = Head(msgs).value
         /\ <<p_control_slider', p_treatment_slider'>> #
              <<p_control_slider, p_treatment_slider>>
    /\ runs' # runs =>
         /\ runs' = runs + 1
         /\ pc = "idle" /\ pc' = "loop" /\ i' = 1 /\ results' = <<>>
         /\ Len(results) = Len(sample_sizes)
         /\ Len(chart) = 1 /\ chart[1].run = runs
         /\ Len(msgs') = Len(msgs) - 1
         /\ args' = [p_control |-> p_control_slider',
                     p_treatment |-> p_treatment_slider']
    /\ args' # args => runs' # runs

Thm_C7 ==
    /\ []C7Inv
    /\ [][C7Step]_vars

Wit_C7 ==
    /\ pc = "idle"
    /\ runs = 3
    /\ msgs = <<>>
    /\ args = [p_control |-> 10, p_treatment |-> 100]
    /\ chart[1].run = 3

\* C8: the grid is 500, 1500, ..., 14500: 15 sizes in steps of 1000,
\* strictly ascending, and no run changes it
Thm_C8 ==
    /\ sample_sizes = <<500, 1500, 2500, 3500, 4500, 5500, 6500, 7500, 8500,
                        9500, 10500, 11500, 12500, 13500, 14500>>
    /\ Len(sample_sizes) = 15
    /\ sample_sizes[1] = 500 /\ sample_sizes[15] = 14500
    /\ \A k \in 1..14 : sample_sizes[k + 1] = sample_sizes[k] + 1000
    /\ \A k \in 1..15 : sample_sizes[k] < 15000

Wit_C8 ==
    /\ pc = "idle"
    /\ runs = 2
    /\ Len(chart) = 1
    /\ chart[1].run = 2
    /\ chart[1].sample_sizes_vals[15] = 14500

\* C9: the power returned is k / repetitions, k the number of trials with
\* |z| strictly above the critical value; a trial with |z| equal to it is
\* not counted and every trial counts in the denominator
Thm_C9 ==
    pc = "returned" =>
        ret = <<[nan |-> FALSE,
                 num |-> Cardinality({j \in Trials : ZExceeds(j)}),
                 den |-> call.num_simulations]>>

Wit_C9 ==
    /\ pc = "returned"
    /\ call.num_simulations = 2
    /\ ZEquals(1)
    /\ ~ZExceeds(2)
    /\ ret[1].num = 0 /\ ret[1].den = 2

\* C10: whether a trial is counted depends only on the unordered pair of
\* its success counts: two trials that are each other's swap are both
\* counted or both not, and a trial with equal counts is never counted
Thm_C10 ==
    pc = "returned" =>
        /\ ret[1].num <=
             Cardinality({j \in Trials : draws.control[j] # draws.treatment[j]})
        /\ (/\ call.num_simulations = 2
            /\ draws.control[1] = draws.treatment[2]
            /\ draws.treatment[1] = draws.control[2]) => ret[1].num \in {0, 2}

Wit_C10 ==
    /\ pc = "returned"
    /\ call.num_simulations = 2
    /\ draws.control[1] = draws.treatment[2]
    /\ draws.treatment[1] = draws.control[2]
    /\ draws.control[1] < draws.treatment[1]
    /\ ret[1].num = 2

====
